---- MODULE Spec2Model ----
(***************************************************************************)
(* Model of the terminal git explorer: the App state machine of            *)
(* src/app.rs, the Tree Builder of src/file_system.rs, the git operations  *)
(* of src/git_ops.rs and the event loop of src/main.rs.                    *)
(*                                                                         *)
(* Representation.  A path and a Rust String holding a path are both the   *)
(* sequence of the path's components: "d/a" is <<"d", "a">>, the empty     *)
(* string "" is <<>>.  A file's content is a version number, 0 meaning     *)
(* "no such file".  A git2::Status bit set is the set of its flag names,   *)
(* Status::CURRENT the empty set.                                          *)
(***************************************************************************)
EXTENDS Integers, Sequences, FiniteSets, TLC

\* ---------------------------------------------------------------- bounds
\* Longest flat entry sequence an expansion may produce.
MaxFiles == 8
\* Longest commit message typed into the dialog.
MaxMsg == 1
\* Largest detail-pane scroll offset.
MaxScroll == 1
\* Longest commit history (the initial commit included).
MaxCommits == 2
\* Longest diff (in line records) handed to append_diff on its own.
MaxLines == 2
\* Longest entry sequence handed to collapse_directory on its own.
MaxEntries == 4

\* ------------------------------------------------------ the working tree
\* The files the working tree may hold, and the directories above them.
FilePaths == { <<"a">>, <<"d", "a">>, <<"d", "e", "b">> }

DirPaths == { <<"d">>, <<"d", "e">> }

\* What to_string_lossy() makes of a name that is not UTF-8.
Lossy == "U+FFFD"

\* Byte order of the component names (String::cmp is byte-wise).
CharOrd == [c \in {"a", "b", "d", "e", Lossy} |->
              CASE c = "a" -> 1 [] c = "b" -> 2 [] c = "d" -> 3 [] c = "e" -> 4
                [] c = Lossy -> 5]

\* Characters the keyboard can send: the three command keys of Browsing (a
\* key that is no command is "Tab").
KeyChars == {"c", "?", "d"}

\* Path::starts_with: component-wise prefix.
StartsWith(path, base) ==
    /\ Len(base) <= Len(path)
    /\ SubSeq(path, 1, Len(base)) = base

\* Path::strip_prefix(base).unwrap_or(path)
StripPrefix(path, base) ==
    IF StartsWith(path, base) THEN SubSeq(path, Len(base) + 1, Len(path)) ELSE path

\* String::cmp on two names: TRUE iff a < b.  Components are single bytes
\* greater than '/', so the byte order of the joined strings is the
\* lexicographic order of the component sequences.
RECURSIVE NameLess(_, _)
NameLess(a, b) ==
    IF a = <<>> THEN b # <<>>
    ELSE IF b = <<>> THEN FALSE
    ELSE IF Head(a) # Head(b) THEN CharOrd[Head(a)] < CharOrd[Head(b)]
    ELSE NameLess(Tail(a), Tail(b))

\* The paths of a set in ascending order (the order libgit2 reports status
\* entries in, and the order the directory scan is enumerated in).
RECURSIVE SortedPaths(_)
SortedPaths(S) ==
    IF S = {} THEN <<>>
    ELSE LET m == CHOOSE p \in S : \A q \in S \ {p} : NameLess(p, q)
         IN <<m>> \o SortedPaths(S \ {m})

\* ------------------------------------------------------------ repository
\* r.commits: the history HEAD points at, oldest first (<<>>: unborn HEAD);
\* r.index: the persisted index; r.work: the working tree; r.unnamed: an
\* untracked file whose name is not UTF-8 lies in the working tree;
\* r.status_err: repo.statuses() returns Err (the working tree can no longer
\* be walked).
NoTree == [f \in FilePaths |-> 0]

HeadTree(r) ==
    IF r.commits = <<>> THEN NoTree ELSE r.commits[Len(r.commits)].tree

CURRENT == {}

\* The status bits of one path, from HEAD tree, index and working tree.
StatusOf(r, f) ==
    LET h == HeadTree(r)[f]
        i == r.index[f]
        w == r.work[f]
    IN  (IF h = 0 /\ i # 0 THEN {"INDEX_NEW"} ELSE {}) \cup
        (IF h # 0 /\ i = 0 THEN {"INDEX_DELETED"} ELSE {}) \cup
        (IF h # 0 /\ i # 0 /\ h # i THEN {"INDEX_MODIFIED"} ELSE {}) \cup
        (IF i = 0 /\ w # 0 THEN {"WT_NEW"} ELSE {}) \cup
        (IF i # 0 /\ w = 0 THEN {"WT_DELETED"} ELSE {}) \cup
        (IF i # 0 /\ w # 0 /\ i # w THEN {"WT_MODIFIED"} ELSE {})

\* repo.statuses(opts) with include_untracked: one entry per path whose
\* status is not CURRENT, in path order, each given by
\* entry.path().unwrap_or_default(): the path of a name that is not UTF-8 is
\* None and comes out as the empty string (its bytes sort after the others).
Statuses(r) ==
    SortedPaths({f \in FilePaths : StatusOf(r, f) # CURRENT})
    \o (IF r.unnamed THEN <<<<>>>> ELSE <<>>)

\* repo.statuses(Some(&mut opts)) is an Err.
StatusQueryFails(r) == r.status_err

\* entry.status() of a status entry given by its path.
EntryStatus(r, path) ==
    IF path \in FilePaths THEN StatusOf(r, path) ELSE {"WT_NEW"}

\* usize, narrowed to UsizeBits bits: a - b as usize::wrapping_sub gives it.
UsizeBits == 16

WrappingSub(a, b) == (a - b + 2 ^ UsizeBits) % (2 ^ UsizeBits)

\* Path::is_dir: a directory exists while a file exists below it.
IsDir(r, path) ==
    /\ path \in DirPaths
    /\ \E f \in FilePaths : r.work[f] # 0 /\ StartsWith(f, path)

\* std::fs::read_dir(dir): the files and directories directly in dir; the
\* file whose name is not UTF-8 lies in the root.
ReadDir(r, dir) ==
    SortedPaths({p \in FilePaths \cup DirPaths :
                    /\ Len(p) = Len(dir) + 1
                    /\ StartsWith(p, dir)
                    /\ \/ (p \in FilePaths /\ r.work[p] # 0)
                       \/ IsDir(r, p)})
    \o (IF r.unnamed /\ dir = <<>> THEN <<<<Lossy>>>> ELSE <<>>)

\* repo.status_file(path).unwrap_or(Status::WT_NEW): the lookup fails for a
\* directory.
StatusFile(r, path) ==
    IF path \in FilePaths THEN StatusOf(r, path) ELSE {"WT_NEW"}

\* current_dir.split('/').count(): "" splits into one (empty) piece.
SplitCount(current_dir) ==
    IF current_dir = <<>> THEN 1 ELSE Len(current_dir)

\* ---------------------------------------------------------- Tree Builder
\* Option<String>: None is the empty tuple, Some(s) the one-tuple of s.
None == <<>>

Some(s) == <<s>>

FileEntry(name, status, is_dir, parent, depth) ==
    [name |-> name, status |-> status, is_dir |-> is_dir,
     parent |-> parent, depth |-> depth]

\* The loop over the status entries: acc is <<files, file_set>>.  The depth
\* is the one a build without overflow checks computes (wrapping).
RECURSIVE StatusLoop(_, _, _, _)
StatusLoop(r, sts, current_dir, acc) ==
    IF sts = <<>> THEN acc
    ELSE
      LET path == Head(sts)
          relative_path == StripPrefix(path, current_dir)
          name == relative_path
          entry == FileEntry(name, EntryStatus(r, path), IsDir(r, path),
                             None, WrappingSub(Len(relative_path), 1))
          acc1 == IF StartsWith(path, current_dir) /\ name \notin acc.file_set
                  THEN [files |-> Append(acc.files, entry),
                        file_set |-> acc.file_set \cup {name}]
                  ELSE acc
      IN StatusLoop(r, Tail(sts), current_dir, acc1)

\* add_untracked_files: the recursive directory scan.  readable is the
\* outcome of std::fs::read_dir (an Err leaves the lists alone).
RECURSIVE ScanEntries(_, _, _, _, _)
RECURSIVE add_untracked_files(_, _, _, _, _)
add_untracked_files(r, readable, dir, acc, current_dir) ==
    IF readable THEN ScanEntries(r, readable, ReadDir(r, dir), acc, current_dir)
    ELSE acc

ScanEntries(r, readable, entries, acc, current_dir) ==
    IF entries = <<>> THEN acc
    ELSE
      LET path == Head(entries)
          name == <<path[Len(path)]>>
          is_dir == IsDir(r, path)
          parent == SubSeq(path, 1, Len(path) - 1)
          entry == FileEntry(name, StatusFile(r, path), is_dir, Some(parent),
                             SplitCount(current_dir))
          acc1 == [files |-> Append(acc.files, entry),
                   file_set |-> acc.file_set \cup {name}]
          subdir == IF current_dir = <<>> THEN name ELSE current_dir \o name
          acc2 == IF is_dir
                  THEN add_untracked_files(r, readable, path, acc1, subdir)
                  ELSE acc1
      IN IF name \notin acc.file_set
         THEN ScanEntries(r, readable, Tail(entries), acc2, current_dir)
         ELSE ScanEntries(r, readable, Tail(entries), acc, current_dir)

\* The comparator of files.sort_by: TRUE iff a sorts strictly before b.
SortsBefore(a, b) ==
    IF a.is_dir = b.is_dir THEN NameLess(a.name, b.name)
    ELSE a.is_dir

\* Vec::sort_by is a stable sort: insertion keeps equal entries in order.
RECURSIVE InsertSorted(_, _)
InsertSorted(s, e) ==
    IF s = <<>> THEN <<e>>
    ELSE IF SortsBefore(e, s[Len(s)])
         THEN Append(InsertSorted(SubSeq(s, 1, Len(s) - 1), e), s[Len(s)])
         ELSE Append(s, e)

RECURSIVE SortFiles(_)
SortFiles(s) ==
    IF s = <<>> THEN <<>>
    ELSE InsertSorted(SortFiles(SubSeq(s, 1, Len(s) - 1)), s[Len(s)])

\* components().count() - 1 underflows: a status entry of the scope has no
\* component left once the scope is stripped.  A build with overflow checks
\* panics there.
get_file_list_underflows(r, current_dir) ==
    \E k \in 1 .. Len(Statuses(r)) :
        /\ StartsWith(Statuses(r)[k], current_dir)
        /\ StripPrefix(Statuses(r)[k], current_dir) = <<>>

get_file_list(r, readable, current_dir) ==
    LET acc0 == [files |-> <<>>, file_set |-> {}]
        acc1 == StatusLoop(r, Statuses(r), current_dir, acc0)
        acc2 == add_untracked_files(r, readable, current_dir, acc1, current_dir)
    IN SortFiles(acc2.files)

\* The scope of the three calls get_file_list(repo) of App: none is given,
\* every build is a build of the repository root, the empty relative path.
RootScope == <<>>

\* ------------------------------------------------------- Diff Assembler
\* One piece of the report text: a literal, or a diff line (marker, owning
\* path, content version).
Tok(text, path, ver) == [text |-> text, path |-> path, ver |-> ver]

Lit(text) == Tok(text, <<>>, 0)

\* A pathspec matches the path itself and everything below it.
PathspecMatch(pathspec, f) == StartsWith(f, pathspec)

\* One line record of diff.print: the paths of the two sides of its delta
\* (delta.old_file(), delta.new_file()), the kind of line and its text (the
\* content version it comes from).
Line(old_file, new_file, origin, ver) ==
    [old_file |-> old_file, new_file |-> new_file, origin |-> origin, ver |-> ver]

\* The line records diff.print(Patch) hands to the callback for one delta
\* from content x to content y: file header, hunk header, the deleted and
\* the added line.  An untracked file is a delta without content lines.
\* Without rename detection both sides of a delta carry the same path.
DeltaLines(f, x, y, untracked) ==
    IF x = y \/ untracked THEN <<>>
    ELSE <<Line(f, f, "FileHeader", 0), Line(f, f, "HunkHeader", 0)>>
         \o (IF x # 0 THEN <<Line(f, f, "Deletion", x)>> ELSE <<>>)
         \o (IF y # 0 THEN <<Line(f, f, "Addition", y)>> ELSE <<>>)

RECURSIVE DiffOver(_, _, _, _, _)
DiffOver(paths, old, new, pathspec, workdir) ==
    IF paths = <<>> THEN <<>>
    ELSE LET f == Head(paths)
         IN (IF PathspecMatch(pathspec, f)
             THEN DeltaLines(f, old[f], new[f], workdir /\ old[f] = 0)
             ELSE <<>>)
            \o DiffOver(Tail(paths), old, new, pathspec, workdir)

\* repo.diff_index_to_workdir(None, opts)
diff_index_to_workdir(r, pathspec) ==
    DiffOver(SortedPaths(FilePaths), r.index, r.work, pathspec, TRUE)

\* repo.diff_tree_to_index(Some(tree), None, opts)
diff_tree_to_index(r, pathspec) ==
    DiffOver(SortedPaths(FilePaths), HeadTree(r), r.index, pathspec, FALSE)

Marker(origin) ==
    CASE origin = "Addition" -> "+"
      [] origin = "Deletion" -> "-"
      [] origin = "AddEOFNL" -> "+\\n"
      [] origin = "DeleteEOFNL" -> "-\\n"
      [] origin = "Context" -> " "
      [] OTHER -> ""

\* The callback of diff.print without the test of the delta's paths.
RECURSIVE KeptLines_unfiltered(_, _)
KeptLines_unfiltered(diff, path) ==
    IF diff = <<>> THEN <<>>
    ELSE <<Tok(Marker(Head(diff).origin), Head(diff).new_file, Head(diff).ver)>>
         \o KeptLines_unfiltered(Tail(diff), path)

\* The callback of diff.print, line by line: what it pushes to content.
RECURSIVE KeptLines(_, _)
KeptLines(diff, path) ==
    IF diff = <<>> THEN <<>>
    ELSE (IF Head(diff).new_file = path \/ Head(diff).old_file = path
          THEN <<Tok(Marker(Head(diff).origin), Head(diff).new_file, Head(diff).ver)>>
          ELSE <<>>)
         \o KeptLines(Tail(diff), path)

\* append_diff: what it appends to content.
append_diff(diff, path) ==
    LET kept == KeptLines(diff, path)
        has_changes == kept # <<>>
    IN IF has_changes THEN kept ELSE <<Lit("No changes")>>

\* str::trim on the report: drops the blank pieces at both ends.
RECURSIVE Trim(_)
Trim(content) ==
    IF content = <<>> THEN <<>>
    ELSE IF Head(content) = Lit("") THEN Trim(Tail(content))
    ELSE IF content[Len(content)] = Lit("") THEN Trim(SubSeq(content, 1, Len(content) - 1))
    ELSE content

\* update_right_pane: [ok, content].  The HEAD lookup fails on an unborn HEAD.
update_right_pane(r, selected_file) ==
    IF selected_file.is_dir
    THEN [ok |-> TRUE, content |-> <<Tok("Directory:", selected_file.name, 0)>>]
    ELSE
      LET path == selected_file.name
          unstaged == <<Lit("Unstaged changes:")>>
                      \o append_diff(diff_index_to_workdir(r, path), path)
          staged == <<Lit(""), Lit("Staged changes:")>>
                    \o append_diff(diff_tree_to_index(r, path), path)
          diff_content == unstaged \o staged
      IN IF r.commits = <<>> THEN [ok |-> FALSE, content |-> <<>>]
         ELSE [ok |-> TRUE,
               content |->
                 IF Trim(diff_content) = <<Lit("Unstaged changes:"), Lit("Staged changes:")>>
                 THEN <<Tok("No changes detected for file:", selected_file.name, 0)>>
                 ELSE diff_content]

\* ------------------------------------------------------ Commit Pipeline
\* index.add_path for each status entry, then index.write: [ok, repo].
\* add_path fails on a path that is not in the working tree; the index is
\* then not written.
RECURSIVE StageLoop(_, _)
StageLoop(r, sts) ==
    IF sts = <<>> THEN [ok |-> TRUE, repo |-> r]
    ELSE LET path == Head(sts)
         IN IF EntryStatus(r, path) # CURRENT
            THEN IF path \notin FilePaths \/ r.work[path] = 0
                 THEN [ok |-> FALSE, repo |-> r]
                 ELSE StageLoop([r EXCEPT !.index[path] = r.work[path]], Tail(sts))
            ELSE StageLoop(r, Tail(sts))

stage_all_modified(r) ==
    LET res == StageLoop(r, Statuses(r))
    IN IF ~StatusQueryFails(r) /\ res.ok THEN res ELSE [ok |-> FALSE, repo |-> r]

\* repo.signature(): the identity of the repository's configuration.
Signature == "user.name"

\* A commit object: its tree, its message, its parent (the position of the
\* parent in the history, 0 for a root commit), its author and committer.
Commit(tree_, message, parent, author, committer) ==
    [tree |-> tree_, message |-> message, parent |-> parent,
     author |-> author, committer |-> committer]

\* create_commit with the tree of the HEAD commit in place of the tree
\* written from the index.
create_commit_head_tree(r, message) ==
    IF r.commits = <<>> THEN [ok |-> FALSE, repo |-> r]
    ELSE [ok |-> TRUE,
          repo |-> [r EXCEPT !.commits =
                      Append(@, Commit(HeadTree(r), message, Len(r.commits),
                                       Signature, Signature))]]

\* create_commit: [ok, repo].  repo.head() fails on an unborn HEAD.
create_commit(r, message) ==
    IF r.commits = <<>> THEN [ok |-> FALSE, repo |-> r]
    ELSE [ok |-> TRUE,
          repo |-> [r EXCEPT !.commits =
                      Append(@, Commit(r.index, message, Len(r.commits),
                                       Signature, Signature))]]

\* ------------------------------------------------------------- the App
VARIABLES
    repo,               \* the repository: history, index, working tree
    scan_ok,            \* whether std::fs::read_dir of the build scope succeeds
    files,              \* App.files, the flat entry sequence
    expanded_dirs,      \* App.expanded_dirs, keyed by the entry's name
    selected_index,     \* App.selected_index (0-based, usize)
    right_pane_content, \* App.right_pane_content
    commit_modal,       \* App.commit_modal: [content, is_visible]
    help_modal,         \* App.help_modal: [is_visible]
    debug_mode,         \* App.debug_mode
    focused_pane,       \* App.focused_pane
    details_scroll,     \* App.details_scroll
    session,            \* "starting", then the event loop: "running", "quit",
                        \* "error", "panic"
    printing,           \* the diff.print call of append_diff: [diff, path, done]
    snap                \* history: the sequence before the pending expansion

vars == <<repo, scan_ok, files, expanded_dirs, selected_index,
          right_pane_content, commit_modal, help_modal, debug_mode,
          focused_pane, details_scroll, session, printing, snap>>

\* The tree the selection, the expansion flags and the panes describe.
tree == <<files, expanded_dirs, selected_index, right_pane_content>>

panes == <<help_modal, debug_mode, focused_pane, details_scroll>>

EmptyMap == [k \in {} |-> FALSE]

NoSnap == <<>>

\* No diff is being printed: between two events none is in progress.
NoPrint == [diff |-> <<>>, path |-> <<>>, done |-> TRUE]

\* HashMap::get, FALSE for a missing key (the value or_insert(false) gives).
IsExpanded(map, key) == IF key \in DOMAIN map THEN map[key] ELSE FALSE

\* The repository states the program can be started on: an unborn HEAD with
\* untracked files only, or one commit and, per file, untracked (0, 1),
\* current (1, 1), modified (1, 2) or deleted (1, 0).  Every name is UTF-8
\* and the status query works.
InitRepos ==
    { [commits |-> <<>>, index |-> NoTree, work |-> [f \in FilePaths |-> 1],
       unnamed |-> FALSE, status_err |-> FALSE] }
    \cup
    { [commits |-> <<Commit(h, <<>>, 0, Signature, Signature)>>,
       index |-> h, work |-> w, unnamed |-> FALSE, status_err |-> FALSE] :
        <<h, w>> \in { hw \in [FilePaths -> {0, 1}] \X [FilePaths -> {0, 1, 2}] :
                        \A f \in FilePaths :
                            IF hw[1][f] = 0 THEN hw[2][f] = 1 ELSE TRUE } }

\* App::new on repository r, with the directory scan succeeding or not.
AppFields(r, readable) ==
    /\ repo = r
    /\ scan_ok = readable
    /\ files = get_file_list(r, readable, RootScope)
    /\ expanded_dirs = EmptyMap
    /\ selected_index = 0
    /\ right_pane_content = <<>>
    /\ commit_modal = [content |-> <<>>, is_visible |-> FALSE]
    /\ help_modal = [is_visible |-> FALSE]
    /\ debug_mode = FALSE
    /\ focused_pane = "FileList"
    /\ details_scroll = 0
    /\ session = "running"
    /\ snap = NoSnap

AppNew(r, readable) ==
    /\ AppFields(r, readable)
    /\ printing = NoPrint

Init == \E r \in InitRepos, readable \in BOOLEAN : AppNew(r, readable)

scroll_details_up ==
    /\ details_scroll' = IF details_scroll > 0 THEN details_scroll - 1 ELSE details_scroll
    /\ UNCHANGED <<repo, tree, commit_modal, help_modal, debug_mode, focused_pane,
                   session, snap>>

scroll_details_down ==
    /\ details_scroll < MaxScroll
    /\ details_scroll' = details_scroll + 1
    /\ UNCHANGED <<repo, tree, commit_modal, help_modal, debug_mode, focused_pane,
                   session, snap>>

move_selection_up ==
    /\ selected_index' = IF files # <<>> /\ selected_index > 0
                         THEN selected_index - 1 ELSE selected_index
    /\ UNCHANGED <<repo, files, expanded_dirs, right_pane_content, commit_modal,
                   panes, session, snap>>

\* move_selection_down without the test against the last index.
move_selection_down_unclamped ==
    /\ selected_index' = IF files # <<>> THEN selected_index + 1 ELSE selected_index
    /\ UNCHANGED <<repo, files, expanded_dirs, right_pane_content, commit_modal,
                   panes, session, snap>>

\* move_selection_down without the test of files.is_empty(), as the first
\* event loop had it (src/main.rs 145-149): on an empty sequence len() - 1
\* panics in a build with overflow checks and wraps to usize::MAX in one
\* without.
move_selection_down_no_empty_test ==
    IF files = <<>>
    THEN \/ /\ session' = "panic"
            /\ UNCHANGED <<repo, tree, commit_modal, panes, snap>>
         \/ /\ selected_index' = selected_index + 1
            /\ UNCHANGED <<repo, files, expanded_dirs, right_pane_content,
                           commit_modal, panes, session, snap>>
    ELSE /\ selected_index' = IF selected_index < Len(files) - 1
                              THEN selected_index + 1 ELSE selected_index
         /\ UNCHANGED <<repo, files, expanded_dirs, right_pane_content,
                        commit_modal, panes, session, snap>>

move_selection_down ==
    /\ selected_index' = IF files # <<>> /\ selected_index < Len(files) - 1
                         THEN selected_index + 1 ELSE selected_index
    /\ UNCHANGED <<repo, files, expanded_dirs, right_pane_content, commit_modal,
                   panes, session, snap>>

\* collapse_directory draining everything after start_index.
collapse_directory_to_end(fs, start_index) ==
    SubSeq(fs, 1, start_index + 1)

\* collapse_directory: the sequence after files.drain(start_index + 1..end_index).
RECURSIVE EndIndex(_, _, _)
EndIndex(fs, end_index, start_depth) ==
    IF end_index < Len(fs) /\ fs[end_index + 1].depth > start_depth
    THEN EndIndex(fs, end_index + 1, start_depth)
    ELSE end_index

collapse_directory(fs, start_index) ==
    LET start_depth == fs[start_index + 1].depth
        end_index == EndIndex(fs, start_index + 1, start_depth)
    IN SubSeq(fs, 1, start_index + 1) \o SubSeq(fs, end_index + 1, Len(fs))

\* The sequence after inserting new_files at insert_index, one by one.
InsertAll(fs, insert_index, new_files) ==
    SubSeq(fs, 1, insert_index) \o new_files \o SubSeq(fs, insert_index + 1, Len(fs))

\* The history of the pending expansion, for the round trip of expand and
\* collapse: taken by the expansion, dropped by the collapse at its index,
\* replaced by an expansion at or above it and dropped by a rebuild.
SnapAfterExpand ==
    IF snap = NoSnap \/ selected_index <= snap[1].idx
    THEN <<[idx |-> selected_index, files |-> files]>>
    ELSE snap

SnapAfterCollapse ==
    IF snap # NoSnap /\ selected_index <= snap[1].idx THEN NoSnap ELSE snap

toggle_directory ==
    IF files = <<>>
    THEN UNCHANGED vars
    ELSE IF selected_index >= Len(files)
    THEN \* self.files[self.selected_index] is out of range
         /\ session' = "panic"
         /\ UNCHANGED <<repo, tree, commit_modal, panes, snap>>
    ELSE
      LET selected_file == files[selected_index + 1]
          full_path == selected_file.name
          is_expanded == ~IsExpanded(expanded_dirs, full_path)
          new_files == get_file_list(repo, scan_ok, RootScope)
          insert_index == selected_index + 1
          shown == update_right_pane(repo, selected_file)
      IN IF selected_file.is_dir
         THEN /\ expanded_dirs' =
                   [k \in DOMAIN expanded_dirs \cup {full_path} |->
                       IF k = full_path THEN is_expanded ELSE expanded_dirs[k]]
              /\ IF is_expanded /\ StatusQueryFails(repo)
                 THEN \* .expect("Couldn't get repository status") panics
                      /\ session' = "panic"
                      /\ UNCHANGED <<files, snap>>
                 ELSE IF is_expanded
                 THEN /\ Len(files) + Len(new_files) <= MaxFiles
                      /\ files' = InsertAll(files, insert_index, new_files)
                      /\ snap' = SnapAfterExpand
                      /\ session' = session
                 ELSE /\ files' = collapse_directory(files, selected_index)
                      /\ snap' = SnapAfterCollapse
                      /\ session' = session
              /\ UNCHANGED <<repo, selected_index, right_pane_content, commit_modal,
                             panes>>
         ELSE IF shown.ok
              THEN /\ right_pane_content' = shown.content
                   /\ UNCHANGED <<repo, files, expanded_dirs, selected_index,
                                  commit_modal, panes, session, snap>>
              ELSE /\ session' = "error"
                   /\ UNCHANGED <<repo, tree, commit_modal, panes, snap>>

\* start_commit showing the dialog whatever stage_all_modified returned.
start_commit_unchecked ==
    /\ repo' = stage_all_modified(repo).repo
    /\ commit_modal' = [commit_modal EXCEPT !.is_visible = TRUE]
    /\ UNCHANGED <<tree, panes, session, snap>>

start_commit ==
    LET staged == stage_all_modified(repo)
    IN IF staged.ok
       THEN /\ repo' = staged.repo
            /\ commit_modal' = [commit_modal EXCEPT !.is_visible = TRUE]
            /\ UNCHANGED <<tree, panes, session, snap>>
       ELSE /\ session' = "error"
            /\ UNCHANGED <<repo, tree, commit_modal, panes, snap>>

toggle_help ==
    /\ help_modal' = [help_modal EXCEPT !.is_visible = ~help_modal.is_visible]
    /\ UNCHANGED <<repo, tree, commit_modal, debug_mode, focused_pane,
                   details_scroll, session, snap>>

close_modals ==
    /\ commit_modal' = [commit_modal EXCEPT !.is_visible = FALSE]
    /\ help_modal' = [help_modal EXCEPT !.is_visible = FALSE]
    /\ UNCHANGED <<repo, tree, debug_mode, focused_pane, details_scroll,
                   session, snap>>

\* perform_commit as the first event loop had it (src/main.rs 117-122): the
\* expansion flags and the detail content are not cleared.
perform_commit_no_clear ==
    LET made == create_commit(repo, commit_modal.content)
    IN IF made.ok
       THEN /\ Len(repo.commits) < MaxCommits
            /\ repo' = made.repo
            /\ commit_modal' = [content |-> <<>>, is_visible |-> FALSE]
            /\ files' = get_file_list(made.repo, scan_ok, RootScope)
            /\ snap' = NoSnap
            /\ UNCHANGED <<expanded_dirs, right_pane_content, selected_index,
                           panes, session>>
       ELSE /\ session' = "error"
            /\ UNCHANGED <<repo, tree, commit_modal, panes, snap>>

perform_commit ==
    LET made == create_commit(repo, commit_modal.content)
    IN IF made.ok /\ StatusQueryFails(made.repo)
       THEN \* the commit is made, the dialog closed, and get_file_list panics
            /\ Len(repo.commits) < MaxCommits
            /\ repo' = made.repo
            /\ commit_modal' = [content |-> <<>>, is_visible |-> FALSE]
            /\ session' = "panic"
            /\ UNCHANGED <<tree, panes, snap>>
       ELSE IF made.ok
       THEN /\ Len(repo.commits) < MaxCommits
            /\ repo' = made.repo
            /\ commit_modal' = [content |-> <<>>, is_visible |-> FALSE]
            /\ files' = get_file_list(made.repo, scan_ok, RootScope)
            /\ expanded_dirs' = EmptyMap
            /\ right_pane_content' = <<>>
            /\ snap' = NoSnap
            /\ UNCHANGED <<selected_index, panes, session>>
       ELSE /\ session' = "error"
            /\ UNCHANGED <<repo, tree, commit_modal, panes, snap>>

toggle_debug_mode ==
    /\ debug_mode' = ~debug_mode
    /\ UNCHANGED <<repo, tree, commit_modal, help_modal, focused_pane,
                   details_scroll, session, snap>>

set_focused_pane(pane) ==
    /\ focused_pane' = pane
    /\ UNCHANGED <<repo, tree, commit_modal, help_modal, debug_mode,
                   details_scroll, session, snap>>

\* KeyCode::Char(c) => self.commit_modal.content.push(c)
push_char(c) ==
    /\ Len(commit_modal.content) < MaxMsg
    /\ commit_modal' = [commit_modal EXCEPT !.content = Append(@, c)]
    /\ UNCHANGED <<repo, tree, panes, session, snap>>

\* KeyCode::Backspace => self.commit_modal.content.pop()
pop_char ==
    /\ commit_modal' = [commit_modal EXCEPT !.content =
                           IF @ = <<>> THEN @ ELSE SubSeq(@, 1, Len(@) - 1)]
    /\ UNCHANGED <<repo, tree, panes, session, snap>>

\* handle_key_event without the test of commit_modal.is_visible: every key
\* takes the Browsing branch.
handle_key_event_ungated(key) ==
    CASE focused_pane = "FileList" /\ key = "Up" -> move_selection_up
      [] focused_pane = "FileList" /\ key = "Down" -> move_selection_down
      [] focused_pane = "Details" /\ key = "Up" -> scroll_details_up
      [] focused_pane = "Details" /\ key = "Down" -> scroll_details_down
      [] key = "Left" -> set_focused_pane("FileList")
      [] key = "Right" -> set_focused_pane("Details")
      [] key = "Enter" -> toggle_directory
      [] key = "c" -> start_commit
      [] key = "?" -> toggle_help
      [] key = "d" -> toggle_debug_mode
      [] key = "Esc" -> close_modals
      [] OTHER -> UNCHANGED vars

\* handle_key_event with Up and Down moving the selection whichever pane is
\* focused.
handle_key_event_unrouted(key) ==
    IF commit_modal.is_visible
    THEN CASE key = "Enter" -> perform_commit
           [] key = "Esc" -> close_modals
           [] key \in KeyChars -> push_char(key)
           [] key = "Backspace" -> pop_char
           [] OTHER -> UNCHANGED vars
    ELSE CASE key = "Up" -> move_selection_up
           [] key = "Down" -> move_selection_down
           [] key = "Left" -> set_focused_pane("FileList")
           [] key = "Right" -> set_focused_pane("Details")
           [] key = "Enter" -> toggle_directory
           [] key = "c" -> start_commit
           [] key = "?" -> toggle_help
           [] key = "d" -> toggle_debug_mode
           [] key = "Esc" -> close_modals
           [] OTHER -> UNCHANGED vars

\* handle_key_event: key is "Up", "Down", "Left", "Right", "Enter", "Esc",
\* "Backspace", "Tab" (any key with no binding) or a character of KeyChars.
handle_key_event(key) ==
    IF commit_modal.is_visible
    THEN CASE key = "Enter" -> perform_commit
           [] key = "Esc" -> close_modals
           [] key \in KeyChars -> push_char(key)
           [] key = "Backspace" -> pop_char
           [] OTHER -> UNCHANGED vars
    ELSE CASE focused_pane = "FileList" /\ key = "Up" -> move_selection_up
           [] focused_pane = "FileList" /\ key = "Down" -> move_selection_down
           [] focused_pane = "Details" /\ key = "Up" -> scroll_details_up
           [] focused_pane = "Details" /\ key = "Down" -> scroll_details_down
           [] key = "Left" -> set_focused_pane("FileList")
           [] key = "Right" -> set_focused_pane("Details")
           [] key = "Enter" -> toggle_directory
           [] key = "c" -> start_commit
           [] key = "?" -> toggle_help
           [] key = "d" -> toggle_debug_mode
           [] key = "Esc" -> close_modals
           [] OTHER -> UNCHANGED vars

\* handle_mouse_event: a left click at a column of 0..=30, 31..=65 or beyond.
\* The pane a left click in the given column focuses.
PaneAt(column) ==
    IF column <= 30 THEN "FileList"
    ELSE IF column <= 65 THEN "Details"
    ELSE "Debug"

\* MouseEventKind::Down(MouseButton::Left) at mouse.column
handle_mouse_event(column) ==
    /\ focused_pane' = PaneAt(column)
    /\ UNCHANGED <<repo, tree, commit_modal, help_modal, debug_mode,
                   details_scroll, session, snap>>

\* ------------------------------------------------------- the event loop
\* One event is read and handled at a time; an Err a handler returns leaves
\* the loop through `?` and ends the session.
KeyUp == session = "running" /\ UNCHANGED <<scan_ok, printing>> /\ handle_key_event("Up")

KeyDown == session = "running" /\ UNCHANGED <<scan_ok, printing>> /\ handle_key_event("Down")

KeyLeft == session = "running" /\ UNCHANGED <<scan_ok, printing>> /\ handle_key_event("Left")

KeyRight == session = "running" /\ UNCHANGED <<scan_ok, printing>> /\ handle_key_event("Right")

KeyEnter == session = "running" /\ UNCHANGED <<scan_ok, printing>> /\ handle_key_event("Enter")

KeyEsc == session = "running" /\ UNCHANGED <<scan_ok, printing>> /\ handle_key_event("Esc")

KeyBackspace == session = "running" /\ UNCHANGED <<scan_ok, printing>> /\ handle_key_event("Backspace")

KeyTab == session = "running" /\ UNCHANGED <<scan_ok, printing>> /\ handle_key_event("Tab")

KeyChar ==
    /\ session = "running"
    /\ UNCHANGED <<scan_ok, printing>>
    /\ \E c \in KeyChars : handle_key_event(c)

\* The columns a click is tried at: both ends of each range of columns.
Columns == {0, 30, 31, 65, 66}

MouseDown ==
    /\ session = "running"
    /\ UNCHANGED <<scan_ok, printing>>
    /\ \E column \in Columns : handle_mouse_event(column)

\* KeyCode::Char('q') => break, outside the commit dialog.
Quit ==
    /\ session = "running"
    /\ ~commit_modal.is_visible
    /\ session' = "quit"
    /\ UNCHANGED <<repo, scan_ok, tree, commit_modal, panes, printing, snap>>

Next ==
    \/ KeyUp
    \/ KeyDown
    \/ KeyLeft
    \/ KeyRight
    \/ KeyEnter
    \/ KeyEsc
    \/ KeyBackspace
    \/ KeyTab
    \/ KeyChar
    \/ MouseDown
    \/ Quit

Spec == Init /\ [][Next]_vars

\* The tree and the commit pipeline: every repository, the keys that act on
\* the tree and on the commit dialog.
KeyC == session = "running" /\ UNCHANGED <<scan_ok, printing>> /\ handle_key_event("c")

NextTree ==
    \/ KeyUp
    \/ KeyDown
    \/ KeyEnter
    \/ KeyEsc
    \/ KeyBackspace
    \/ KeyC

SpecTree == Init /\ [][NextTree]_vars

\* The panes and the dialogs: every event, on builds that have no directory
\* to expand (the directory scan fails), over one repository of each kind:
\* unborn HEAD, a modified with d/a untracked, a deleted.
PaneRepos ==
    { r \in InitRepos :
        r.commits # <<>> =>
            /\ r.commits[1].tree[<<"d", "e", "b">>] = 1
            /\ r.work[<<"d", "e", "b">>] = 1
            /\ r.work[<<"d", "a">>] = 1
            /\ r.commits[1].tree[<<"a">>] = 1
            /\ r.work[<<"a">>] # 1
            /\ r.commits[1].tree[<<"d", "a">>] = 0 <=> r.work[<<"a">>] = 2 }

InitPanes == \E r \in PaneRepos : AppNew(r, FALSE)

SpecPanes == InitPanes /\ [][Next]_vars

\* append_diff on its own: the diffs diff.print may stream, of up to
\* MaxLines line records over the deltas of two files (renames between them
\* included), and the selected path.
DiffPaths == { <<"a">>, <<"d", "a">> }

Origins == {"FileHeader", "HunkHeader", "Context", "Addition", "Deletion",
            "AddEOFNL", "DeleteEOFNL"}

LineRecords ==
    { Line(o, n, k, 1) : o \in DiffPaths, n \in DiffPaths, k \in Origins }

DiffStreams == UNION { [1 .. n -> LineRecords] : n \in 0 .. MaxLines }

InitDiff ==
    /\ \E r \in InitRepos :
          /\ r.commits # <<>>
          /\ Statuses(r) = <<>>
          /\ AppFields(r, FALSE)
    /\ printing \in [diff : DiffStreams, path : FilePaths, done : {FALSE}]

\* append_diff(&mut content, &diff, &path) on the diff being printed.
PrintDiff ==
    /\ ~printing.done
    /\ right_pane_content' =
           right_pane_content \o append_diff(printing.diff, printing.path)
    /\ printing' = [printing EXCEPT !.done = TRUE]
    /\ UNCHANGED <<repo, scan_ok, files, expanded_dirs, selected_index,
                   commit_modal, panes, session, snap>>

NextDiff == PrintDiff

SpecDiff == InitDiff /\ [][NextDiff]_vars

\* collapse_directory on its own: entry sequences of up to MaxEntries
\* entries of every shape of depths, directories (all under the one name d,
\* flagged expanded) and files; the selection is moved with Up and Down and
\* Enter toggles the selected entry.  The repository has nothing changed and
\* cannot be scanned, so that an expansion splices an empty build.
Depths == 0 .. 2

EntryShapes(n) ==
    [1 .. n -> [depth : Depths, is_dir : BOOLEAN]]

ShapedEntries(shape) ==
    [k \in 1 .. Len(shape) |->
        FileEntry(IF shape[k].is_dir THEN <<"d">> ELSE <<"a">>, {"WT_NEW"},
                  shape[k].is_dir, None, shape[k].depth)]

InitCollapse ==
    /\ \E r \in InitRepos :
          /\ r.commits # <<>>
          /\ Statuses(r) = <<>>
          /\ repo = r
    /\ scan_ok = FALSE
    /\ \E n \in 1 .. MaxEntries : \E shape \in EntryShapes(n) :
          files = ShapedEntries(shape)
    /\ expanded_dirs = [k \in {<<"d">>} |-> TRUE]
    /\ selected_index = 0
    /\ right_pane_content = <<>>
    /\ commit_modal = [content |-> <<>>, is_visible |-> FALSE]
    /\ help_modal = [is_visible |-> FALSE]
    /\ debug_mode = FALSE
    /\ focused_pane = "FileList"
    /\ details_scroll = 0
    /\ session = "running"
    /\ printing = NoPrint
    /\ snap = NoSnap

NextCollapse ==
    \/ KeyUp
    \/ KeyDown
    \/ KeyEnter

SpecCollapse == InitCollapse /\ [][NextCollapse]_vars

\* Rebuilds under a status query that may start to fail: the tree and the
\* commit pipeline as in SpecTree, while the working tree may become
\* unwalkable at any time after the initial build.
StatusBreaks ==
    /\ session = "running"
    /\ ~repo.status_err
    /\ repo' = [repo EXCEPT !.status_err = TRUE]
    /\ UNCHANGED <<scan_ok, tree, commit_modal, panes, session, printing, snap>>

NextRebuild ==
    \/ KeyUp
    \/ KeyDown
    \/ KeyEnter
    \/ KeyEsc
    \/ KeyBackspace
    \/ KeyC
    \/ StatusBreaks

SpecRebuild == Init /\ [][NextRebuild]_vars

\* The Tree Builder on its own: App::new on every repository, those with an
\* untracked file whose name is not UTF-8 included.  The process starts
\* with no entries; the one step is the build.
BuildRepos ==
    InitRepos \cup { [r EXCEPT !.unnamed = TRUE] : r \in InitRepos }

InitBuild ==
    /\ repo \in BuildRepos
    /\ scan_ok \in BOOLEAN
    /\ files = <<>>
    /\ expanded_dirs = EmptyMap
    /\ selected_index = 0
    /\ right_pane_content = <<>>
    /\ commit_modal = [content |-> <<>>, is_visible |-> FALSE]
    /\ help_modal = [is_visible |-> FALSE]
    /\ debug_mode = FALSE
    /\ focused_pane = "FileList"
    /\ details_scroll = 0
    /\ session = "starting"
    /\ printing = NoPrint
    /\ snap = NoSnap

\* files: get_file_list(repo) of App::new.  Where the depth underflows, a
\* build with overflow checks panics and one without goes on with the
\* wrapped depth.
AppStart ==
    /\ session = "starting"
    /\ \/ /\ StatusQueryFails(repo) \/ get_file_list_underflows(repo, RootScope)
          /\ session' = "panic"
          /\ files' = files
       \/ /\ ~StatusQueryFails(repo)
          /\ session' = "running"
          /\ files' = get_file_list(repo, scan_ok, RootScope)
    /\ UNCHANGED <<repo, scan_ok, expanded_dirs, selected_index,
                   right_pane_content, commit_modal, panes, printing, snap>>

NextBuild == AppStart

SpecBuild == InitBuild /\ [][NextBuild]_vars

\* ------------------------------------------------------------ the claims
\* The steps the claims speak of, told by what they do to the state.
\* A toggle that expands: the sequence grows while the dialog is closed.
ExpandStep ==
    /\ ~commit_modal.is_visible
    /\ Len(files') > Len(files)

\* A toggle that collapses the selected directory: its flag goes from
\* expanded to collapsed while the dialog is closed.
CollapseStep ==
    /\ ~commit_modal.is_visible
    /\ files # <<>>
    /\ selected_index < Len(files)
    /\ files[selected_index + 1].is_dir
    /\ IsExpanded(expanded_dirs, files[selected_index + 1].name)
    /\ ~IsExpanded(expanded_dirs', files[selected_index + 1].name)

\* A confirm that created a commit.
CommitOkStep == Len(repo'.commits) > Len(repo.commits)

\* A confirm on which create_commit failed.
CommitFailedStep ==
    /\ KeyEnter
    /\ commit_modal.is_visible
    /\ ~create_commit(repo, commit_modal.content).ok

\* C1: in every reachable state, a non-empty entry sequence has
\* 0 <= selected_index < entries.len(), also after a rebuild that returns a
\* shorter sequence.
C1_SelectionInRange ==
    files # <<>> => (0 <= selected_index /\ selected_index < Len(files))

\* C2: a move up or down from a valid index of a non-empty sequence leaves
\* selected_index within [0, len-1]: it steps by at most one, stops at the
\* bound it has reached, never wraps and never under- or overflows, however
\* many moves are made.  (A move is a step that changes selected_index and
\* leaves the entries alone.)
C2_MoveClamps ==
    [][ (/\ files # <<>>
         /\ selected_index < Len(files)
         /\ files' = files
         /\ selected_index' # selected_index)
        => /\ 0 <= selected_index'
           /\ selected_index' < Len(files)
           /\ selected_index' \in {selected_index - 1, selected_index + 1} ]_vars

\* C2 witness: the selection has been moved down to the last of at least
\* three entries of the initial build.
C2_AtLastEntry ==
    /\ session = "running"
    /\ Len(repo.commits) <= 1
    /\ snap = NoSnap
    /\ Len(files) >= 3
    /\ selected_index = Len(files) - 1

\* C3: collapsing a directory that was expanded restores the flat sequence
\* to exactly what it was before the expansion, whatever was expanded below
\* it in between.
C3_ExpandCollapseRoundTrip ==
    [][ (/\ CollapseStep
         /\ snap # NoSnap
         /\ selected_index = snap[1].idx)
        => files' = snap[1].files ]_vars

\* C4: the entries an expansion splices in after a directory of depth d all
\* have depth strictly greater than d (re-based on the parent's depth), so
\* that they form the directory's run, ending at the next entry of depth <= d.
C4_SplicedBelowParent ==
    [][ (ExpandStep /\ selected_index < Len(files))
        => \A k \in (selected_index + 2) .. (selected_index + 1 + Len(files') - Len(files)) :
              files'[k].depth > files[selected_index + 1].depth ]_vars

\* C5: cancel closes the dialog without creating a commit, and the typed
\* message is discarded: whenever the dialog opens, its text is empty.
C5_CancelDiscardsMessage ==
    [][ /\ (KeyEsc /\ commit_modal.is_visible)
            => (~commit_modal'.is_visible /\ repo' = repo)
        /\ (~commit_modal.is_visible /\ commit_modal'.is_visible)
            => commit_modal'.content = <<>> ]_vars

\* C6: a confirm on which the commit fails leaves the dialog visible with
\* the typed message, leaves entries, selection, expansion flags and detail
\* content alone, and the session goes on processing events.
C6_FailedCommitKeepsSession ==
    [][ CommitFailedStep
        => /\ commit_modal' = commit_modal
           /\ commit_modal'.is_visible
           /\ UNCHANGED tree
           /\ session' = "running" ]_vars

\* C7: after a successful confirm the dialog is hidden and its message
\* empty, the expansion flags and the detail content are empty, and the
\* entries are exactly a fresh build of the scope root on the repository as
\* the commit left it.
C7_CommitRebuilds ==
    [][ CommitOkStep
        => /\ commit_modal' = [content |-> <<>>, is_visible |-> FALSE]
           /\ DOMAIN expanded_dirs' = {}
           /\ right_pane_content' = <<>>
           /\ files' = get_file_list(repo', scan_ok, RootScope)
           /\ session' = "running" ]_vars

\* C7 witness: a commit has been made on top of the initial one and the
\* rebuilt tree is shown.
C7_AfterCommit ==
    /\ Len(repo.commits) = 2
    /\ ~commit_modal.is_visible
    /\ files # <<>>
    /\ session = "running"

\* C8: while the commit dialog is open, no key but confirm changes entries,
\* selection, expansion flags or scroll offset, and the arrow and character
\* keys leave the focus alone; while it is closed, no step changes the
\* message.
C8_DialogGatesKeys ==
    [][ /\ (commit_modal.is_visible /\ ~CommitOkStep)
            => UNCHANGED <<files, selected_index, expanded_dirs, details_scroll>>
        /\ (commit_modal.is_visible
            /\ (KeyUp \/ KeyDown \/ KeyLeft \/ KeyRight \/ KeyChar \/ KeyBackspace \/ KeyTab))
            => focused_pane' = focused_pane
        /\ ~commit_modal.is_visible
            => commit_modal'.content = commit_modal.content ]_vars

\* C8 witness: text has been typed into the open dialog, over a tree of
\* several entries, with the detail pane focused.
C8_TypingInDialog ==
    /\ commit_modal.is_visible
    /\ commit_modal.content # <<>>
    /\ Len(files) >= 2
    /\ focused_pane = "Details"

\* C9: stage_all adds to the index exactly the paths whose status is not
\* Current and persists the index: after the stage-and-open key, the index
\* holds the working-tree state of every such path and is unchanged for
\* every Current path.
C9_StagesEveryChange ==
    [][ (KeyC /\ ~commit_modal.is_visible)
        => \A f \in FilePaths :
              repo'.index[f] = IF StatusOf(repo, f) # CURRENT
                               THEN repo.work[f] ELSE repo.index[f] ]_vars

\* C10: on a repository whose only change is one untracked file, stage-all
\* and a successful commit leave no status entry for that path, and the
\* tree rebuilt after the commit has no entry for an unchanged path.
OnlyChangeIsOneNewFile(r) ==
    /\ Cardinality({f \in FilePaths : StatusOf(r, f) # CURRENT}) = 1
    /\ \A f \in FilePaths : StatusOf(r, f) \in {CURRENT, {"INDEX_NEW"}}

C10_CommitEmptiesTree ==
    [][ (CommitOkStep /\ OnlyChangeIsOneNewFile(repo))
        => /\ Statuses(repo') = <<>>
           /\ \A k \in 1 .. Len(files') :
                 files'[k].is_dir \/ files'[k].status # CURRENT ]_vars

\* C11: commit creates exactly one new commit whose tree is the current
\* index, whose sole parent is the commit HEAD pointed to before, whose
\* author and committer are the same configured identity, and HEAD moves to
\* it; on an unborn HEAD it fails, creates no commit and leaves HEAD alone.
C11_CommitOnHead ==
    [][ (KeyEnter /\ commit_modal.is_visible)
        => IF repo.commits # <<>>
           THEN /\ Len(repo'.commits) = Len(repo.commits) + 1
                /\ SubSeq(repo'.commits, 1, Len(repo.commits)) = repo.commits
                /\ LET made == repo'.commits[Len(repo'.commits)]
                   IN /\ made.tree = repo.index
                      /\ made.parent = Len(repo.commits)
                      /\ made.author = made.committer
                      /\ made.author = Signature
                      /\ made.message = commit_modal.content
                /\ repo'.index = repo.index
                /\ repo'.work = repo.work
           ELSE /\ repo' = repo
                /\ session' # "running" ]_vars

\* C11 witness: a commit with a typed message stands on the initial one and
\* its tree differs from its parent's.
C11_SecondCommit ==
    /\ Len(repo.commits) = 2
    /\ repo.commits[2].message # <<>>
    /\ repo.commits[2].parent = 1
    /\ repo.commits[2].tree # repo.commits[1].tree

\* The line records of a diff that belong to path: the new or the old side
\* of their delta is path.
OwnLines(diff, path) ==
    SelectSeq(diff, LAMBDA l : l.new_file = path \/ l.old_file = path)

\* The lines of a report section, its "No changes" placeholder left out.
ReportLines(content) ==
    SelectSeq(content, LAMBDA t : t # Lit("No changes"))

\* C12: for every multi-file diff stream and every selected path, the
\* assembled section holds one line, marker first, for exactly the line
\* records whose delta has the path on its new or old side, in stream order;
\* the records of other paths are discarded.
C12_KeepsOwnLinesOnly ==
    [][ (~printing.done /\ printing'.done)
        => LET own == OwnLines(printing.diff, printing.path)
               added == SubSeq(right_pane_content', Len(right_pane_content) + 1,
                               Len(right_pane_content'))
               kept == ReportLines(added)
           IN /\ Len(kept) = Len(own)
              /\ \A j \in 1 .. Len(own) :
                    /\ kept[j].text = Marker(own[j].origin)
                    /\ kept[j].path = own[j].new_file
                    /\ kept[j].ver = own[j].ver ]_vars

\* C12 witness: a diff with a line of the selected path and a line of
\* another path only has been printed, and the section holds one line.
C12_MixedDiffPrinted ==
    /\ printing.done
    /\ Len(printing.diff) = 2
    /\ Len(OwnLines(printing.diff, printing.path)) = 1
    /\ Len(right_pane_content) = 1
    /\ right_pane_content[1] # Lit("No changes")

\* A toggle on a file entry that assembled its report (the "view").
ViewStep ==
    /\ KeyEnter
    /\ ~commit_modal.is_visible
    /\ files # <<>>
    /\ selected_index < Len(files)
    /\ ~files[selected_index + 1].is_dir
    /\ update_right_pane(repo, files[selected_index + 1]).ok

\* C13: when the selected file has no matching diff line in either
\* comparison (index to working tree, HEAD tree to index), the whole report
\* is the "no changes detected" message for that file, not the two section
\* headers with nothing or placeholders under them.
C13_NoChangesMessage ==
    [][ (/\ ViewStep
         /\ LET path == files[selected_index + 1].name
            IN /\ KeptLines(diff_index_to_workdir(repo, path), path) = <<>>
               /\ KeptLines(diff_tree_to_index(repo, path), path) = <<>>)
        => right_pane_content' =
              <<Tok("No changes detected for file:", files[selected_index + 1].name, 0)>> ]_vars

\* A toggle on a file entry on which the assembly of the report failed.
ViewFailedStep ==
    /\ KeyEnter
    /\ ~commit_modal.is_visible
    /\ files # <<>>
    /\ selected_index < Len(files)
    /\ ~files[selected_index + 1].is_dir
    /\ ~update_right_pane(repo, files[selected_index + 1]).ok

\* What the detail pane shows of a failed assembly: the text of the error.
ErrorText == <<Lit("error")>>

\* C14: if a diff computation fails while a file is viewed, the detail pane
\* holds the error text (no partial report, not the previous report),
\* entries, selected_index and expansion flags are unchanged, and the
\* session goes on processing events.
C14_DiffFailureShown ==
    [][ ViewFailedStep
        => /\ right_pane_content' = ErrorText
           /\ UNCHANGED <<files, selected_index, expanded_dirs>>
           /\ session' = "running" ]_vars

\* The path of an entry relative to the scope of its build: its name for an
\* entry of the status query, its parent joined with its name for an entry
\* of the directory scan.
EntryPath(e) == IF e.parent = None THEN e.name ELSE e.parent[1] \o e.name

\* C15: every sequence the Tree Builder returns has all directory entries
\* before all file entries and, within one kind, the entries in ascending
\* lexicographic order of their relative paths.
C15_BuildSorted ==
    LET built == get_file_list(repo, scan_ok, RootScope)
    IN \A i \in 1 .. Len(built) : \A j \in (i + 1) .. Len(built) :
          /\ built[i].is_dir \/ ~built[j].is_dir
          /\ built[i].is_dir = built[j].is_dir
                => ~NameLess(EntryPath(built[j]), EntryPath(built[i]))

\* C16: expanding a collapsed directory at index i sets its flag and
\* splices exactly the Tree Builder's result scoped to that directory, in
\* builder order, at positions i+1..i+k; the entries up to i, the entries
\* formerly after i and selected_index are unchanged.
C16_ExpandSplicesScopedBuild ==
    [][ (ExpandStep /\ selected_index < Len(files))
        => LET i == selected_index + 1
               k == Len(files') - Len(files)
               scoped == get_file_list(repo, scan_ok, EntryPath(files[i]))
           IN /\ IsExpanded(expanded_dirs', files[i].name)
              /\ SubSeq(files', i + 1, i + k) = scoped
              /\ SubSeq(files', 1, i) = SubSeq(files, 1, i)
              /\ SubSeq(files', i + k + 1, Len(files')) = SubSeq(files, i + 1, Len(files))
              /\ selected_index' = selected_index ]_vars

\* The first position after i (1-based) of an entry of depth <= d, or the
\* position after the last entry.
RunEnd(fs, i, d) ==
    LET stops == {j \in (i + 1) .. Len(fs) : fs[j].depth <= d}
    IN IF stops = {} THEN Len(fs) + 1
       ELSE CHOOSE j \in stops : \A m \in stops : j <= m

\* C17: collapsing an expanded directory at index i of depth d sets its flag
\* to collapsed and removes exactly the maximal run of entries after i whose
\* depth is strictly greater than d: the entries up to i, the entries from
\* the first following one of depth <= d on, and selected_index are unchanged.
C17_CollapseRemovesRun ==
    [][ CollapseStep
        => LET i == selected_index + 1
               e == RunEnd(files, i, files[i].depth)
           IN /\ ~IsExpanded(expanded_dirs', files[i].name)
              /\ files' = SubSeq(files, 1, i) \o SubSeq(files, e, Len(files))
              /\ \A j \in (i + 1) .. (e - 1) : files[j].depth > files[i].depth
              /\ selected_index' = selected_index ]_vars

\* C17 witness: a directory in the middle of the sequence has been
\* collapsed, and an entry that is not deeper still follows it.
C17_CollapsedInMiddle ==
    /\ files # <<>>
    /\ selected_index > 0
    /\ selected_index + 1 < Len(files)
    /\ files[selected_index + 1].is_dir
    /\ <<"d">> \in DOMAIN expanded_dirs
    /\ ~expanded_dirs[<<"d">>]
    /\ files[selected_index + 2].depth <= files[selected_index + 1].depth
    /\ Len(files) < MaxEntries

\* C18: the commit dialog becomes visible only in a transition in which
\* stage_all has run to successful completion (the index then holds its
\* result); if stage_all fails, the dialog stays closed and message, entries
\* and selection are unchanged.
C18_StageBeforeDialog ==
    [][ /\ (~commit_modal.is_visible /\ commit_modal'.is_visible)
            => /\ stage_all_modified(repo).ok
               /\ repo' = stage_all_modified(repo).repo
               /\ \A f \in FilePaths : repo'.index[f] = repo'.work[f]
        /\ (KeyC /\ ~commit_modal.is_visible /\ ~stage_all_modified(repo).ok)
            => /\ ~commit_modal'.is_visible
               /\ commit_modal'.content = commit_modal.content
               /\ repo' = repo
               /\ UNCHANGED <<files, selected_index>> ]_vars

\* C18 witness: the dialog is open on the first commit's history and the
\* index, staged, differs from the HEAD tree.
C18_StagedAndOpen ==
    /\ commit_modal.is_visible
    /\ Len(repo.commits) = 1
    /\ repo.index # HeadTree(repo)
    /\ repo.index = repo.work

\* C19: exactly one pane is focused, and the navigation keys are routed by
\* it: with the tree pane focused Up and Down change nothing but
\* selected_index, with the detail pane focused nothing but the scroll
\* offset, with the debug pane focused nothing at all; Left and Right change
\* nothing but the focused pane, which while browsing becomes the tree pane
\* on Left and the detail pane on Right.
C19_KeysRoutedByFocus ==
    [][ /\ focused_pane \in {"FileList", "Details", "Debug"}
        /\ (focused_pane = "FileList" /\ (KeyUp \/ KeyDown))
            => UNCHANGED <<repo, scan_ok, files, expanded_dirs, right_pane_content,
                           commit_modal, panes, session, printing>>
        /\ (focused_pane = "Details" /\ (KeyUp \/ KeyDown))
            => UNCHANGED <<repo, scan_ok, tree, commit_modal, help_modal, debug_mode,
                           focused_pane, session, printing>>
        /\ (focused_pane = "Debug" /\ (KeyUp \/ KeyDown))
            => UNCHANGED <<repo, scan_ok, tree, commit_modal, panes, session, printing>>
        /\ (KeyLeft \/ KeyRight)
            => /\ UNCHANGED <<repo, scan_ok, tree, commit_modal, help_modal,
                              debug_mode, details_scroll, session, printing>>
               /\ (~commit_modal.is_visible /\ KeyLeft) => focused_pane' = "FileList"
               /\ (~commit_modal.is_visible /\ KeyRight) => focused_pane' = "Details" ]_vars

\* C19 witness: while browsing, the selection has been moved down the tree
\* and, with the detail pane focused, the details have been scrolled.
C19_BothRoutesUsed ==
    /\ ~commit_modal.is_visible
    /\ focused_pane = "Details"
    /\ details_scroll > 0
    /\ selected_index > 0
    /\ session = "running"

\* C20: on an empty entry sequence move-up, move-down and toggle/view are
\* no-ops: selected_index, entries, expansion flags and detail content are
\* unchanged and nothing fails (no underflow of len - 1, no access to
\* entries[selected_index]).
C20_EmptyTreeNoOps ==
    [][ (/\ files = <<>>
         /\ ~commit_modal.is_visible
         /\ (KeyUp \/ KeyDown \/ KeyEnter))
        => /\ UNCHANGED tree
           /\ session' = "running" ]_vars

\* C20 witness: the session runs on an empty sequence, rebuilt by a commit
\* made while an entry further down was selected.
C20_EmptiedByCommit ==
    /\ files = <<>>
    /\ Len(repo.commits) = 2
    /\ selected_index > 0
    /\ ~commit_modal.is_visible
    /\ session = "running"

\* The paths the directory scan of the scope root comes across: the files of
\* the working tree and the directories above them.
ScannedPaths(r) ==
    {f \in FilePaths : r.work[f] # 0} \cup {d \in DirPaths : IsDir(r, d)}

\* C21: the sequence the Tree Builder returns has at most one entry per
\* path relative to the scope: a path reported by the status query and by
\* the directory scan yields the status entry only, and no path keeps
\* another path out of the sequence.
C21_OneEntryPerPath ==
    LET built == get_file_list(repo, scan_ok, RootScope)
        paths == {EntryPath(built[k]) : k \in 1 .. Len(built)}
    IN /\ \A i \in 1 .. Len(built) : \A j \in (i + 1) .. Len(built) :
             EntryPath(built[i]) # EntryPath(built[j])
       /\ scan_ok => ScannedPaths(repo) \subseteq paths

\* C22: every entry the Tree Builder returns, from the status query or from
\* the directory scan, has depth equal to the number of components of its
\* path relative to the scope minus one (0 directly in the scope).
C22_DepthIsComponentsMinusOne ==
    LET built == get_file_list(repo, scan_ok, RootScope)
    IN \A k \in 1 .. Len(built) :
          built[k].depth = Len(EntryPath(built[k])) - 1

\* C23: a status path with no filename component relative to the scope (it
\* equals the scope root, or is empty) is skipped silently: the build
\* completes, has no entry for it and computes no depth for it (no underflow
\* of the component count minus one).
C23_RootPathSkipped ==
    [][ (session = "starting" /\ get_file_list_underflows(repo, RootScope))
        => /\ session' = "running"
           /\ \A k \in 1 .. Len(files') :
                 /\ files'[k].name # <<>>
                 /\ files'[k].depth < Len(EntryPath(files'[k])) + 1 ]_vars

\* A step that rebuilds the tree: a confirm whose commit is made, or a
\* toggle that expands the selected directory.
RebuildStep ==
    /\ KeyEnter
    /\ \/ /\ commit_modal.is_visible
          /\ create_commit(repo, commit_modal.content).ok
       \/ /\ ~commit_modal.is_visible
          /\ files # <<>>
          /\ selected_index < Len(files)
          /\ files[selected_index + 1].is_dir
          /\ ~IsExpanded(expanded_dirs, files[selected_index + 1].name)

\* C24: if the status query fails during a rebuild (not the initial build),
\* the failure is the result of that rebuild and the session continues: the
\* process is not aborted.
C24_StatusFailureSurvived ==
    [][ (StatusQueryFails(repo) /\ RebuildStep) => session' = "running" ]_vars

\* The directory entry at position i (1-based) is shown without children:
\* no entry of greater depth follows it directly.
Childless(fs, i) == RunEnd(fs, i, fs[i].depth) = i + 1

\* C25: a directory entry's flag is set exactly when its children are
\* materialised in the run directly after it, so that a toggle on a directory
\* shown without children expands it: the flag is set afterwards.
C25_ToggleExpandsChildless ==
    [][ (/\ ~commit_modal.is_visible
         /\ files # <<>>
         /\ selected_index < Len(files)
         /\ files[selected_index + 1].is_dir
         /\ Childless(files, selected_index + 1)
         /\ KeyEnter)
        => IsExpanded(expanded_dirs', files[selected_index + 1].name) ]_vars

\* C26: the commit dialog and the help dialog are never visible at the same
\* time.
C26_OneModalAtATime == ~(commit_modal.is_visible /\ help_modal.is_visible)

\* C27: the debug pane is focused only while debug mode is on.
C27_DebugFocusNeedsDebugMode == focused_pane = "Debug" => debug_mode

====
